---- MODULE Spec2Model ----
(***************************************************************************)
(* Model of building-blocks/examples/src/double_server.rs: a two-listener  *)
(* line relay.  Clients of the "C" listener are served by CPeer tasks,     *)
(* clients of the "GO" listener by GOPeer tasks.  Every task owns a Lines  *)
(* codec over its socket and the receiving half (rx) of an unbounded       *)
(* channel; the sending halves (tx) live in two mutex-guarded maps,        *)
(* c_state.peers and go_state.peers, keyed by the remote socket address.   *)
(*                                                                         *)
(* Bytes are integers (their ASCII codes).  A connection is named by a     *)
(* small integer; the tx stored in a map is named by the connection that   *)
(* owns the matching rx.  Tasks run on a thread pool, so the steps of      *)
(* different tasks interleave; one step of the model is a stretch of one   *)
(* task's code that touches the shared state once.                         *)
(***************************************************************************)
EXTENDS Integers, Sequences, FiniteSets, TLC

(* ------------------------------ bounds --------------------------------- *)
\* Number of connections accepted in one run.  A run that starts with that
\* many peers in the chat has one more connection that is about to join and
\* may accept yet another.
NConn == 3
\* Number of things the clients and the network do in one run: connect,
\* send a chunk, close, break a connection, stop taking bytes.
MaxEvents == 6
\* The same for what the clients do after one of them has sent a burst.
TickEvents == 2
\* The same while the peer of that client reads the burst.
PollEvents == 1
\* The same while two peers of one pool broadcast a line each.
FanEvents == 1
\* Number of those that are faults (resets, short writes).
MaxFaults == 1
\* Number of bytes a socket still takes before a write to it would block.
MaxShort == 2

Conns == 1..(NConn + 2)

\* The connections of a run in which clients share addresses: the listeners
\* accept NConn of them.
Accepted == 1..NConn
Kinds == {"C", "GO"}
\* Remote socket addresses the clients connect from.
Addrs == 1..(NConn + 2)

\* The connections of a run, in the order they are accepted: the listener
\* each client connects to and the address it connects from.  Connections 1
\* and 2 come from different addresses to different listeners; connection 3
\* comes to the listener of 2 from the address of 1.
Listener(c) == IF c % 4 \in {0, 1} THEN "C" ELSE "GO"

PeerAddr(c) == IF c % 2 = 1 THEN 1 ELSE 2

\* The listeners in a run in which a client whose connection was reset
\* connects again from the same address: a client always connects to the
\* same listener, so that connection 3 comes to the listener of 1 from the
\* address of 1.
ReuseListener(c) == IF c % 2 = 1 THEN "C" ELSE "GO"

\* The addresses in a run in which every client connects from an address of
\* its own, so that no peer has the address of a peer of the other pool.
ApartAddr(c) == c

(* ------------------------- program constants --------------------------- *)
LINES_PER_TICK == 10
CR == 13
LF == 10
COLON == 58
SPACE == 32

\* name of a connection that has not received its first line
NoName == <<-1>>
NoAddr == 0

(* --------------------------- byte helpers ------------------------------ *)
Min(a, b) == IF a < b THEN a ELSE b

Take(s, n) == SubSeq(s, 1, n)
Drop(s, n) == SubSeq(s, n + 1, Len(s))

\* the bytes of a sequence of queued messages, in queue order
RECURSIVE Flatten(_)
Flatten(q) == IF q = <<>> THEN <<>> ELSE Head(q).data \o Flatten(Tail(q))

(* ------------------------------ Shared --------------------------------- *)
\* The two maps: the owner map of a peer type and the map it broadcasts to.
OwnState(kind) == IF kind = "C" THEN "c_state" ELSE "go_state"

\* mutant: a peer that broadcasts through the map it is registered in
TargetIsOwn(kind) == OwnState(kind)

TargetState(kind) == IF kind = "C" THEN "go_state" ELSE "c_state"

States == {"c_state", "go_state"}

\* Shared::new
EmptyPeers == [a \in {} |-> 0]

\* mutant: an insert that is left out
InsertNothing(m, a, tx) == m

\* mutant: an insert that keeps the entry a key already has
InsertIfAbsent(m, a, tx) ==
    [x \in DOMAIN m \cup {a} |-> IF x \in DOMAIN m THEN m[x] ELSE tx]

\* HashMap::insert: adds the entry, replacing the value of a present key
Insert(m, a, tx) == [x \in DOMAIN m \cup {a} |-> IF x = a THEN tx ELSE m[x]]

\* mutant: a remove that is left out
RemoveNothing(m, a) == m

\* mutant: a remove that clears the map
RemoveAll(m, a) == EmptyPeers

\* HashMap::remove: deletes the entry of the key if there is one
Remove(m, a) == [x \in DOMAIN m \ {a} |-> m[x]]

(* ------------------------------- Lines --------------------------------- *)
\* rd.windows(2).enumerate().find(bytes == b"\r\n"): the 0-based index of
\* the first CR LF pair, or -1
RECURSIVE FindFrom(_, _)
FindFrom(buf, i) ==
    IF i + 1 > Len(buf) THEN -1
    ELSE IF buf[i] = CR /\ buf[i + 1] = LF THEN i - 1
    ELSE FindFrom(buf, i + 1)

\* mutant: a search that takes a CR that another byte follows for the
\* terminator
FindCR(buf) ==
    IF \E i \in 1..(Len(buf) - 1) : buf[i] = CR
    THEN (CHOOSE i \in 1..(Len(buf) - 1) :
              buf[i] = CR /\ \A j \in 1..(i - 1) : buf[j] # CR) - 1
    ELSE -1

FindCRLF(buf) == FindFrom(buf, 1)

\* rd.split_to(pos + 2) followed by line.split_off(pos)
LineOf(buf, pos) == Take(buf, pos)

RestOf(buf, pos) == Drop(buf, pos + 2)

\* mutant: the separator without its space
FormatNoSpace(nm, message) == nm \o <<COLON>> \o message \o <<CR, LF>>

\* name.clone(); extend ": "; extend message; extend "\r\n"
FormatLine(nm, message) == nm \o <<COLON, SPACE>> \o message \o <<CR, LF>>

(* ------------------------- client behaviour ---------------------------- *)
\* The first line a client sends is its name, one letter a or b.
Letter(c) == 97 + (c % 2)

\* the k-th chat line of a client: a CR, the letter x and an LF, none of
\* which ends a line, then in turn the empty line and a letter y, z, ...
ChatLine(k) ==
    IF k = 1 THEN <<CR, 120, LF>>
    ELSE IF k % 2 = 1 THEN <<120 + (k \div 2)>> ELSE <<>>

\* the bytes a client has to send: its name line, then its chat lines
RECURSIVE ChatBytes(_)
ChatBytes(k) ==
    IF k = 0 THEN <<>> ELSE ChatBytes(k - 1) \o ChatLine(k) \o <<CR, LF>>

Stream(c) == <<Letter(c), CR, LF>> \o ChatBytes(MaxEvents + LINES_PER_TICK + 1)

\* index of the CR of the first CR LF of a byte sequence that holds one
RECURSIVE FirstCR(_, _)
FirstCR(p, i) ==
    IF p[i] = CR /\ p[i + 1] = LF THEN i ELSE FirstCR(p, i + 1)

\* the first k lines of a byte sequence that holds them, with their CR LF
RECURSIVE FirstLines(_, _)
FirstLines(p, k) ==
    IF k = 0 THEN <<>>
    ELSE Take(p, FirstCR(p, 1) + 1) \o FirstLines(Drop(p, FirstCR(p, 1) + 1), k - 1)

\* a chunk of more than one line
IsBurst(chunk) == FindCRLF(chunk) >= 0 /\ FindCRLF(chunk) + 2 < Len(chunk)

\* The chunks a client may send next when n bytes are out: the rest of the
\* current line with its CR LF, or the line up to the CR of its CR LF alone,
\* so that the terminator arrives in two pieces, or (in a run with a burst) one line
\* more than a peer takes from its channel in one poll.
Chunks(c, n, burst) ==
    LET p == Drop(Stream(c), n)
    IN  IF p = <<>> THEN {}
        ELSE IF Head(p) = LF THEN {<<LF>>}
        ELSE {Take(p, FirstCR(p, 1) + 1), Take(p, FirstCR(p, 1))}
             \cup (IF burst > 0 /\ n > 0
                   THEN {FirstLines(p, LINES_PER_TICK + 1)} ELSE {})

(* ------------------------------- state --------------------------------- *)
VARIABLES
    peers,      \* peers[s]: the map of Shared s, address -> tx (a connection)
    kind,       \* kind[c]: the listener that accepted c, "C" or "GO"
    addr,       \* addr[c]: lines.socket.peer_addr()
    st,         \* st[c]: Free, AwaitingName, Active or Terminated
    pc,         \* pc[c]: position of the task within a poll
    notified,   \* notified[c]: the executor has been told to poll the task
    rxWait,     \* rxWait[c]: rx.poll returned NotReady and parked the task
    rdWait,     \* rdWait[c]: a socket read would block and parked the task
    wrBlocked,  \* wrBlocked[c]: a socket write would block and parked the task
    name,       \* name[c]: the peer's name
    rd,         \* rd[c]: Lines.rd
    wr,         \* wr[c]: Lines.wr
    rx,         \* rx[c]: the messages queued in the channel of c
    rxAlive,    \* rxAlive[c]: the rx half exists
    sockIn,     \* sockIn[c]: bytes sent by the client and not yet read
    sockOpen,   \* sockOpen[c]: the server's socket of c is open
    clientClosed, \* clientClosed[c]: the client has shut its side down
    sockErr,    \* sockErr[c]: the socket is in error
    budget,     \* things the clients and the network may still do
    bursts,     \* bursts of lines the clients may still send
    faults,     \* faults the network may still inject
    sent,       \* history: all bytes the client of c has sent
    out,        \* history: all bytes written to the socket of c
    bcast,      \* history: the messages c has broadcast
    enq,        \* history: the messages enqueued on the tx of c
    removes,    \* history: how often Drop removed the entry of c
    sendFailed, \* history: some unbounded_send returned an error
    locked,     \* locked[s]: the connection whose task holds the mutex of s, or 0
    todo,       \* todo[c]: the entries the for loop of c has still to visit
    cur,        \* cur[c]: the formatted line c is broadcasting
    emitted,    \* history: the lines Lines::poll has returned for c
    nread,      \* history: the lines c has read in its current poll
    atEof,      \* history: the lines Lines::poll has returned for c at the
                \* end of input (with sock_closed true)
    reuse,      \* the run is one in which an address is used again
    apart       \* the run is one in which no two clients share an address

taskVars == <<st, pc, notified, rxWait, rdWait, wrBlocked, name>>
bufVars == <<rd, wr, rx, rxAlive>>
sockVars == <<sockIn, sockOpen, clientClosed, sockErr, budget, bursts, faults,
             sent>>
histVars == <<out, bcast, enq, removes, sendFailed>>
fanVars == <<locked, todo, cur>>
lineVars == <<emitted, nread, atEof>>
planVars == <<reuse, apart>>
vars == <<peers, kind, addr, taskVars, bufVars, sockVars, histVars, fanVars,
          lineVars, planVars>>

InitWith(events, nbursts) ==
    /\ locked = [s \in States |-> 0]
    /\ todo = [c \in Conns |-> EmptyPeers]
    /\ cur = [c \in Conns |-> <<>>]
    /\ emitted = [c \in Conns |-> <<>>]
    /\ nread = [c \in Conns |-> 0]
    /\ atEof = [c \in Conns |-> 0]
    /\ peers = [s \in States |-> EmptyPeers]
    /\ kind = [c \in Conns |-> "none"]
    /\ addr = [c \in Conns |-> NoAddr]
    /\ st = [c \in Conns |-> "Free"]
    /\ pc = [c \in Conns |-> "idle"]
    /\ notified = [c \in Conns |-> FALSE]
    /\ rxWait = [c \in Conns |-> FALSE]
    /\ rdWait = [c \in Conns |-> FALSE]
    /\ wrBlocked = [c \in Conns |-> FALSE]
    /\ name = [c \in Conns |-> NoName]
    /\ rd = [c \in Conns |-> <<>>]
    /\ wr = [c \in Conns |-> <<>>]
    /\ rx = [c \in Conns |-> <<>>]
    /\ rxAlive = [c \in Conns |-> FALSE]
    /\ sockIn = [c \in Conns |-> <<>>]
    /\ sockOpen = [c \in Conns |-> FALSE]
    /\ clientClosed = [c \in Conns |-> FALSE]
    /\ sockErr = [c \in Conns |-> FALSE]
    /\ budget = events
    /\ bursts = nbursts
    /\ faults = MaxFaults
    /\ sent = [c \in Conns |-> <<>>]
    /\ out = [c \in Conns |-> <<>>]
    /\ bcast = [c \in Conns |-> <<>>]
    /\ enq = [c \in Conns |-> <<>>]
    /\ removes = [c \in Conns |-> 0]
    /\ sendFailed = FALSE

\* main: both maps start empty and no connection has been accepted
Init == InitWith(MaxEvents, 0) /\ reuse = FALSE /\ apart = FALSE

\* the same start, for a run in which an address is used again
InitReuse == InitWith(MaxEvents, 0) /\ reuse = TRUE /\ apart = FALSE

\* the same start, for a run in which one client sends a burst: five things
\* (two connects, two names, the burst) and then TickEvents more
InitBurst == InitWith(TickEvents + 5, 1) /\ reuse = FALSE /\ apart = FALSE

\* the k-th message of the burst of connection 1
BurstMsg(k) == [from |-> 1, data |-> FormatLine(<<Letter(1)>>, ChatLine(k))]

\* the name of connection 1 and the lines of its burst
BurstLines == [k \in 1..(LINES_PER_TICK + 2) |->
                 IF k = 1 THEN <<Letter(1)>> ELSE ChatLine(k - 1)]

\* The state of a run of InitBurst in which connections 1 and 2 have joined,
\* client 1 has sent LINES_PER_TICK + 1 lines in one chunk, peer 1 has read
\* and broadcast them all and gone to sleep, and the task of peer 2, which
\* the first of them has notified, has not been polled yet.
InitTick ==
    /\ reuse = FALSE /\ apart = FALSE
    /\ locked = [s \in States |-> 0]
    /\ todo = [c \in Conns |-> EmptyPeers]
    /\ cur = [c \in Conns |-> <<>>]
    /\ emitted = [c \in Conns |->
                    IF c = 1 THEN BurstLines
                    ELSE IF c = 2 THEN <<(<<Letter(2)>>)>> ELSE <<>>]
    /\ nread = [c \in Conns |-> IF c = 1 THEN LINES_PER_TICK + 1 ELSE 0]
    /\ atEof = [c \in Conns |-> 0]
    /\ peers = [s \in States |->
                  IF s = "c_state" THEN Insert(EmptyPeers, PeerAddr(1), 1)
                  ELSE Insert(EmptyPeers, PeerAddr(2), 2)]
    /\ kind = [c \in Conns |-> IF c <= 2 THEN Listener(c) ELSE "none"]
    /\ addr = [c \in Conns |-> IF c <= 2 THEN PeerAddr(c) ELSE NoAddr]
    /\ st = [c \in Conns |-> IF c <= 2 THEN "Active" ELSE "Free"]
    /\ pc = [c \in Conns |-> "idle"]
    /\ notified = [c \in Conns |-> c = 2]
    /\ rxWait = [c \in Conns |-> c = 1]
    /\ rdWait = [c \in Conns |-> c <= 2]
    /\ wrBlocked = [c \in Conns |-> FALSE]
    /\ name = [c \in Conns |-> IF c <= 2 THEN <<Letter(c)>> ELSE NoName]
    /\ rd = [c \in Conns |-> <<>>]
    /\ wr = [c \in Conns |-> <<>>]
    /\ rx = [c \in Conns |->
               IF c = 2 THEN [k \in 1..(LINES_PER_TICK + 1) |-> BurstMsg(k)]
               ELSE <<>>]
    /\ rxAlive = [c \in Conns |-> c <= 2]
    /\ sockIn = [c \in Conns |-> <<>>]
    /\ sockOpen = [c \in Conns |-> c <= 2]
    /\ clientClosed = [c \in Conns |-> FALSE]
    /\ sockErr = [c \in Conns |-> FALSE]
    /\ budget = TickEvents
    /\ bursts = 0
    /\ faults = MaxFaults
    /\ sent = [c \in Conns |->
                 IF c = 1 THEN <<Letter(1), CR, LF>> \o ChatBytes(LINES_PER_TICK + 1)
                 ELSE IF c = 2 THEN <<Letter(2), CR, LF>>
                 ELSE <<>>]
    /\ out = [c \in Conns |-> <<>>]
    /\ bcast = [c \in Conns |->
                  IF c = 1
                  THEN [k \in 1..(LINES_PER_TICK + 1) |->
                          [data |-> BurstMsg(k).data, present |-> {2},
                           own |-> {PeerAddr(1)}, gone |-> {},
                           ending |-> {}]]
                  ELSE <<>>]
    /\ enq = [c \in Conns |->
                IF c = 2 THEN [k \in 1..(LINES_PER_TICK + 1) |-> BurstMsg(k)]
                ELSE <<>>]
    /\ removes = [c \in Conns |-> 0]
    /\ sendFailed = FALSE

\* The state of a run of InitBurst in which connections 1 and 2 have joined
\* and gone to sleep and client 1 has then sent LINES_PER_TICK + 1 lines in
\* one chunk, which has woken the task of peer 1.
InitPoll ==
    /\ reuse = FALSE /\ apart = FALSE
    /\ locked = [s \in States |-> 0]
    /\ todo = [c \in Conns |-> EmptyPeers]
    /\ cur = [c \in Conns |-> <<>>]
    /\ emitted = [c \in Conns |->
                    IF c <= 2 THEN <<(<<Letter(c)>>)>> ELSE <<>>]
    /\ nread = [c \in Conns |-> 0]
    /\ atEof = [c \in Conns |-> 0]
    /\ peers = [s \in States |->
                  IF s = "c_state" THEN Insert(EmptyPeers, PeerAddr(1), 1)
                  ELSE Insert(EmptyPeers, PeerAddr(2), 2)]
    /\ kind = [c \in Conns |-> IF c <= 2 THEN Listener(c) ELSE "none"]
    /\ addr = [c \in Conns |-> IF c <= 2 THEN PeerAddr(c) ELSE NoAddr]
    /\ st = [c \in Conns |-> IF c <= 2 THEN "Active" ELSE "Free"]
    /\ pc = [c \in Conns |-> "idle"]
    /\ notified = [c \in Conns |-> c = 1]
    /\ rxWait = [c \in Conns |-> c <= 2]
    /\ rdWait = [c \in Conns |-> c = 2]
    /\ wrBlocked = [c \in Conns |-> FALSE]
    /\ name = [c \in Conns |-> IF c <= 2 THEN <<Letter(c)>> ELSE NoName]
    /\ rd = [c \in Conns |-> <<>>]
    /\ wr = [c \in Conns |-> <<>>]
    /\ rx = [c \in Conns |-> <<>>]
    /\ rxAlive = [c \in Conns |-> c <= 2]
    /\ sockIn = [c \in Conns |->
                   IF c = 1 THEN ChatBytes(LINES_PER_TICK + 1) ELSE <<>>]
    /\ sockOpen = [c \in Conns |-> c <= 2]
    /\ clientClosed = [c \in Conns |-> FALSE]
    /\ sockErr = [c \in Conns |-> FALSE]
    /\ budget = PollEvents
    /\ bursts = 0
    /\ faults = MaxFaults
    /\ sent = [c \in Conns |->
                 IF c = 1 THEN <<Letter(1), CR, LF>> \o ChatBytes(LINES_PER_TICK + 1)
                 ELSE IF c = 2 THEN <<Letter(2), CR, LF>>
                 ELSE <<>>]
    /\ out = [c \in Conns |-> <<>>]
    /\ bcast = [c \in Conns |-> <<>>]
    /\ enq = [c \in Conns |-> <<>>]
    /\ removes = [c \in Conns |-> 0]
    /\ sendFailed = FALSE

\* the start of a run in which no two clients share an address: ten
\* things (four connects, four names, two chat lines) and then FanEvents
\* more
InitApart == InitWith(FanEvents + 10, 0) /\ reuse = FALSE /\ apart = TRUE

\* The state of a run of InitApart in which connections 1 (C listener), 2 and
\* 3 (GO listener) have joined and gone to sleep, the clients of 2 and 3
\* have then sent their first chat line each, which has woken their tasks,
\* and connection 4 (C listener) has been accepted and its client has sent
\* its name, but its task has not been polled yet.
InitFan ==
    /\ reuse = FALSE /\ apart = TRUE
    /\ locked = [s \in States |-> 0]
    /\ todo = [c \in Conns |-> EmptyPeers]
    /\ cur = [c \in Conns |-> <<>>]
    /\ emitted = [c \in Conns |->
                    IF c <= 3 THEN <<(<<Letter(c)>>)>> ELSE <<>>]
    /\ nread = [c \in Conns |-> 0]
    /\ atEof = [c \in Conns |-> 0]
    /\ peers = [s \in States |->
                  IF s = "c_state" THEN Insert(EmptyPeers, ApartAddr(1), 1)
                  ELSE Insert(Insert(EmptyPeers, ApartAddr(2), 2),
                              ApartAddr(3), 3)]
    /\ kind = [c \in Conns |-> IF c <= 4 THEN Listener(c) ELSE "none"]
    /\ addr = [c \in Conns |-> IF c <= 4 THEN ApartAddr(c) ELSE NoAddr]
    /\ st = [c \in Conns |->
               IF c <= 3 THEN "Active"
               ELSE IF c = 4 THEN "AwaitingName" ELSE "Free"]
    /\ pc = [c \in Conns |-> "idle"]
    /\ notified = [c \in Conns |-> c \in {2, 3, 4}]
    /\ rxWait = [c \in Conns |-> c <= 3]
    /\ rdWait = [c \in Conns |-> c = 1]
    /\ wrBlocked = [c \in Conns |-> FALSE]
    /\ name = [c \in Conns |-> IF c <= 3 THEN <<Letter(c)>> ELSE NoName]
    /\ rd = [c \in Conns |-> <<>>]
    /\ wr = [c \in Conns |-> <<>>]
    /\ rx = [c \in Conns |-> <<>>]
    /\ rxAlive = [c \in Conns |-> c <= 3]
    /\ sockIn = [c \in Conns |->
                   IF c \in {2, 3} THEN ChatBytes(1)
                   ELSE IF c = 4 THEN <<Letter(4), CR, LF>> ELSE <<>>]
    /\ sockOpen = [c \in Conns |-> c <= 4]
    /\ clientClosed = [c \in Conns |-> FALSE]
    /\ sockErr = [c \in Conns |-> FALSE]
    /\ budget = FanEvents
    /\ bursts = 0
    /\ faults = MaxFaults
    /\ sent = [c \in Conns |->
                 IF c \in {2, 3} THEN <<Letter(c), CR, LF>> \o ChatBytes(1)
                 ELSE IF c \in {1, 4} THEN <<Letter(c), CR, LF>>
                 ELSE <<>>]
    /\ out = [c \in Conns |-> <<>>]
    /\ bcast = [c \in Conns |-> <<>>]
    /\ enq = [c \in Conns |-> <<>>]
    /\ removes = [c \in Conns |-> 0]
    /\ sendFailed = FALSE

(* ---------------------------- environment ------------------------------ *)
\* main: a listener's for_each hands an accepted socket to c_process or
\* go_process, which wraps it in Lines::new and spawns the connection task.
\* TCP keeps the remote addresses of the connections of one listener apart;
\* a connection that was reset is none any more, though its socket is open
\* until the task drops it.
Accept(c) ==
    /\ st[c] = "Free"
    /\ c <= NConn \/ apart
    /\ \A d \in Conns : d < c => st[d] # "Free"
    /\ LET l == IF reuse THEN ReuseListener(c) ELSE Listener(c)
           a == IF apart THEN ApartAddr(c) ELSE PeerAddr(c)
       IN  /\ \A d \in Conns :
                 sockOpen[d] /\ ~sockErr[d] /\ kind[d] = l => addr[d] # a
           /\ kind' = [kind EXCEPT ![c] = l]
           /\ addr' = [addr EXCEPT ![c] = a]
    /\ budget > 0
    /\ budget' = budget - 1
    /\ st' = [st EXCEPT ![c] = "AwaitingName"]
    /\ sockOpen' = [sockOpen EXCEPT ![c] = TRUE]
    /\ notified' = [notified EXCEPT ![c] = TRUE]
    /\ UNCHANGED <<peers, pc, rxWait, rdWait, wrBlocked, name, bufVars,
                   sockIn, clientClosed, sockErr, bursts, faults, sent,
                   histVars>>
    /\ UNCHANGED <<fanVars, lineVars, planVars>>

\* The client writes its next chunk; a task parked on the read side is woken.
ClientSend(c, chunk) ==
    /\ sockOpen[c] /\ ~clientClosed[c] /\ ~sockErr[c]
    /\ budget > 0
    /\ budget' = budget - 1
    /\ bursts' = IF IsBurst(chunk) THEN bursts - 1 ELSE bursts
    /\ sockIn' = [sockIn EXCEPT ![c] = @ \o chunk]
    /\ sent' = [sent EXCEPT ![c] = @ \o chunk]
    /\ notified' = [notified EXCEPT ![c] = @ \/ rdWait[c]]
    /\ rdWait' = [rdWait EXCEPT ![c] = FALSE]
    /\ UNCHANGED <<peers, kind, addr, st, pc, rxWait, wrBlocked, name, bufVars,
                   sockOpen, clientClosed, sockErr, faults, histVars>>
    /\ UNCHANGED <<fanVars, lineVars, planVars>>

\* The client shuts its sending side down: the server will read end of input.
ClientClose(c) ==
    /\ sockOpen[c] /\ ~clientClosed[c] /\ ~sockErr[c]
    /\ budget > 0
    /\ budget' = budget - 1
    /\ clientClosed' = [clientClosed EXCEPT ![c] = TRUE]
    /\ notified' = [notified EXCEPT ![c] = @ \/ rdWait[c]]
    /\ rdWait' = [rdWait EXCEPT ![c] = FALSE]
    /\ UNCHANGED <<peers, kind, addr, st, pc, rxWait, wrBlocked, name, bufVars,
                   sockIn, sockOpen, sockErr, bursts, faults, sent, histVars>>
    /\ UNCHANGED <<fanVars, lineVars, planVars>>

\* The connection breaks: every later read or write on the socket fails.
SockError(c) ==
    /\ sockOpen[c] /\ ~sockErr[c]
    /\ faults > 0 /\ budget > 0
    /\ faults' = faults - 1
    /\ budget' = budget - 1
    /\ sockErr' = [sockErr EXCEPT ![c] = TRUE]
    /\ sockIn' = [sockIn EXCEPT ![c] = <<>>]
    /\ notified' = [notified EXCEPT ![c] = @ \/ rdWait[c] \/ wrBlocked[c]]
    /\ rdWait' = [rdWait EXCEPT ![c] = FALSE]
    /\ wrBlocked' = [wrBlocked EXCEPT ![c] = FALSE]
    /\ UNCHANGED <<peers, kind, addr, st, pc, rxWait, name, bufVars,
                   sockOpen, clientClosed, bursts, sent, histVars>>
    /\ UNCHANGED <<fanVars, lineVars, planVars>>

\* The socket can take bytes again; the task parked on the write side is woken.
SockWritable(c) ==
    /\ sockOpen[c] /\ ~sockErr[c]
    /\ wrBlocked[c]
    /\ wrBlocked' = [wrBlocked EXCEPT ![c] = FALSE]
    /\ notified' = [notified EXCEPT ![c] = TRUE]
    /\ UNCHANGED <<peers, kind, addr, st, pc, rxWait, rdWait, name, bufVars,
                   sockVars, histVars>>
    /\ UNCHANGED <<fanVars, lineVars, planVars>>

(* ------------------------------ the task ------------------------------- *)
\* Lines::fill_read_buf: everything the socket holds goes to rd; the result
\* is Ready at end of input and NotReady when the next read would block.
Filled(c) == rd[c] \o sockIn[c]

\* mutant: a poll that reports the end of input before it looks for a line
LinesPollEofFirst(buf, closed, err) ==
    IF err THEN "Err"
    ELSE IF closed THEN "None"
    ELSE IF FindCRLF(buf) >= 0 THEN "Some"
    ELSE "NotReady"

\* Lines::poll on the filled buffer: the read error, else the first line,
\* else the end of the stream if the socket has closed, else NotReady
LinesPoll(buf, closed, err) ==
    IF err THEN "Err"
    ELSE IF FindCRLF(buf) >= 0 THEN "Some"
    ELSE IF closed THEN "None"
    ELSE "NotReady"

\* mutant: a stream that ended without a line joins the chat as well
JoinsAlways(res) == TRUE

\* and_then in c_process / go_process: match name { Some(name) => the peer
\* is made, None => the task ends }
JoinsChat(res) == res = "Some"

\* mutant: a broadcast that does not compare addresses
SendKeysAll(m, self) == DOMAIN m

\* The entries of a map a broadcast of a peer at address self sends to
\* (if *addr != self.addr)
SendKeys(m, self) == {a \in DOMAIN m : a # self}

\* The connections whose tx is in the map a broadcast of c goes through
Registered(c) ==
    {peers[TargetState(kind[c])][a] : a \in DOMAIN peers[TargetState(kind[c])]}

\* The connections whose tx a broadcast of c sends to
Receivers(c) ==
    {peers[TargetState(kind[c])][a] :
        a \in SendKeys(peers[TargetState(kind[c])], addr[c])}

\* c_process / go_process: the first poll(s) of the connection task.
\* into_future polls Lines for the first line; and_then makes the peer
\* (CPeer::new / GOPeer::new insert the tx into the own map) or ends the task
\* when the stream ended without a line; an error ends the task in map_err.
PollName(c) ==
    /\ st[c] = "AwaitingName" /\ pc[c] = "idle" /\ notified[c]
    /\ LET buf == Filled(c)
           pos == FindCRLF(buf)
           res == LinesPoll(buf, clientClosed[c], sockErr[c])
       IN  IF res = "Err" \/ (res # "NotReady" /\ ~JoinsChat(res))
           THEN \* Err(e), or Ready(None): the task is over, Lines is dropped
                /\ st' = [st EXCEPT ![c] = "Terminated"]
                /\ pc' = [pc EXCEPT ![c] = "done"]
                /\ notified' = [notified EXCEPT ![c] = FALSE]
                /\ rdWait' = [rdWait EXCEPT ![c] = FALSE]
                /\ rd' = [rd EXCEPT ![c] = <<>>]
                /\ sockIn' = [sockIn EXCEPT ![c] = <<>>]
                /\ sockOpen' = [sockOpen EXCEPT ![c] = FALSE]
                /\ UNCHANGED <<peers, name, rxAlive, emitted, atEof>>
           ELSE IF res # "NotReady"
           THEN \* Ready(Some(name)): the peer is created and polled at once
                \* peers.insert waits for the mutex of the own map
                /\ locked[OwnState(kind[c])] = 0
                /\ name' = [name EXCEPT ![c] = LineOf(buf, pos)]
                /\ rd' = [rd EXCEPT ![c] = RestOf(buf, pos)]
                /\ emitted' = [emitted EXCEPT ![c] = Append(@, LineOf(buf, pos))]
                /\ atEof' = [atEof EXCEPT ![c] =
                               IF clientClosed[c] THEN @ + 1 ELSE @]
                /\ peers' = [peers EXCEPT ![OwnState(kind[c])] =
                                Insert(@, addr[c], c)]
                /\ rxAlive' = [rxAlive EXCEPT ![c] = TRUE]
                /\ st' = [st EXCEPT ![c] = "Active"]
                /\ pc' = [pc EXCEPT ![c] = "drain"]
                /\ notified' = [notified EXCEPT ![c] = FALSE]
                /\ rdWait' = [rdWait EXCEPT ![c] = ~clientClosed[c]]
                /\ sockIn' = [sockIn EXCEPT ![c] = <<>>]
                /\ UNCHANGED sockOpen
           ELSE \* NotReady
                /\ rd' = [rd EXCEPT ![c] = buf]
                /\ sockIn' = [sockIn EXCEPT ![c] = <<>>]
                /\ notified' = [notified EXCEPT ![c] = FALSE]
                /\ rdWait' = [rdWait EXCEPT ![c] = TRUE]
                /\ UNCHANGED <<peers, name, rxAlive, st, pc, sockOpen, emitted,
                               atEof>>
    /\ UNCHANGED <<kind, addr, rxWait, wrBlocked, wr, rx, clientClosed, sockErr,
                   budget, bursts, faults, sent, histVars, fanVars, nread,
                   planVars>>

\* How many bytes of a write buffer one poll_flush can get written: all of
\* them, or the few the socket still takes before it blocks (a fault of the
\* run).
Written(buf, blocked, spare) ==
    IF blocked THEN {0}
    ELSE {Len(buf)}
         \cup (IF spare > 0 THEN 0..Min(Len(buf) - 1, MaxShort) ELSE {})

\* mutant: a partial write after which the rest of the buffer is thrown away
RemainderLost(buf, k) == <<>>

\* let _ = self.wr.split_to(n): what stays in the write buffer when k bytes
\* of it were written
Remainder(buf, k) == Drop(buf, k)

\* mutant: a poll that ends when the flush would block
YieldOnBlock(blocked) == IF blocked THEN "idle" ELSE "read"

\* let _ = self.lines.poll_flush()?: the result of the flush, Ready or
\* NotReady, is thrown away and the poll goes on to read lines
AfterFlush(blocked) == "read"

\* mutant: a drain loop without the limit
DrainAll(q) == Len(q)

\* for i in 0..LINES_PER_TICK { match self.rx.poll() .. _ => break }: the
\* number of messages one poll takes from the channel
DrainCount(q) == Min(Len(q), LINES_PER_TICK)

\* mutant: the drain loop that forgets to notify the task
NeverNotify(n) == FALSE

\* if i + 1 == LINES_PER_TICK { task::current().notify() }: after n messages
\* were taken, the task has notified itself if the last iteration took one
SelfNotify(n) == n = LINES_PER_TICK

\* CPeer::poll / GOPeer::poll, first half: up to LINES_PER_TICK messages go
\* from rx to the write buffer (the task notifies itself when the last
\* iteration still got a message), then poll_flush writes the buffer out.
DrainFlush(c) ==
    /\ st[c] = "Active"
    /\ pc[c] = "drain" \/ (pc[c] = "idle" /\ notified[c])
    /\ LET n == DrainCount(rx[c])
           self == SelfNotify(n)
           buf == wr[c] \o Flatten(Take(rx[c], n))
       IN  /\ rx' = [rx EXCEPT ![c] = Drop(@, n)]
           /\ rxWait' = [rxWait EXCEPT ![c] = n < LINES_PER_TICK]
           /\ notified' = [notified EXCEPT ![c] =
                             IF pc[c] = "idle" THEN self ELSE @ \/ self]
           /\ IF buf # <<>> /\ sockErr[c]
              THEN \* poll_flush()? returns the error
                   /\ wr' = [wr EXCEPT ![c] = buf]
                   /\ pc' = [pc EXCEPT ![c] = "drop"]
                   /\ UNCHANGED <<out, wrBlocked, faults, budget>>
              ELSE \E k \in Written(buf, wrBlocked[c], Min(faults, budget)) :
                   /\ out' = [out EXCEPT ![c] = @ \o Take(buf, k)]
                   /\ wr' = [wr EXCEPT ![c] = Remainder(buf, k)]
                   /\ wrBlocked' = [wrBlocked EXCEPT ![c] = k < Len(buf)]
                   /\ faults' = IF k < Len(buf) /\ ~wrBlocked[c]
                                THEN faults - 1 ELSE faults
                   /\ budget' = IF k < Len(buf) /\ ~wrBlocked[c]
                                THEN budget - 1 ELSE budget
                   /\ pc' = [pc EXCEPT ![c] = AfterFlush(k < Len(buf))]
    /\ nread' = [nread EXCEPT ![c] = 0]
    /\ UNCHANGED <<peers, kind, addr, st, rdWait, name, rd, rxAlive, sockIn,
                   sockOpen, clientClosed, sockErr, bursts, sent,
                   bcast, enq, removes, sendFailed, fanVars, emitted, atEof,
                   planVars>>

\* CPeer::poll / GOPeer::poll, second half, one turn of the while loop:
\* Lines::poll fills rd and cuts the first line off, and the line is
\* formatted; end of input ends the poll with Ready, an error with Err, and
\* NotReady leaves the task parked.
ReadLine(c) ==
    /\ st[c] = "Active" /\ pc[c] = "read"
    /\ LET buf == Filled(c)
           pos == FindCRLF(buf)
           res == LinesPoll(buf, clientClosed[c], sockErr[c])
       IN  IF res \in {"Err", "None"}
           THEN /\ pc' = [pc EXCEPT ![c] = "drop"]
                /\ UNCHANGED <<rd, sockIn, rdWait, cur, lineVars>>
           ELSE IF res = "Some"
           THEN /\ rd' = [rd EXCEPT ![c] = RestOf(buf, pos)]
                /\ sockIn' = [sockIn EXCEPT ![c] = <<>>]
                /\ rdWait' = [rdWait EXCEPT ![c] = @ \/ ~clientClosed[c]]
                /\ cur' = [cur EXCEPT ![c] =
                             FormatLine(name[c], LineOf(buf, pos))]
                /\ emitted' = [emitted EXCEPT ![c] = Append(@, LineOf(buf, pos))]
                /\ atEof' = [atEof EXCEPT ![c] =
                               IF clientClosed[c] THEN @ + 1 ELSE @]
                /\ nread' = [nread EXCEPT ![c] = @ + 1]
                /\ pc' = [pc EXCEPT ![c] = "lock"]
           ELSE /\ rd' = [rd EXCEPT ![c] = buf]
                /\ sockIn' = [sockIn EXCEPT ![c] = <<>>]
                /\ rdWait' = [rdWait EXCEPT ![c] = TRUE]
                /\ pc' = [pc EXCEPT ![c] = "idle"]
                /\ UNCHANGED <<cur, lineVars>>
    /\ UNCHANGED <<peers, kind, addr, st, notified, rxWait, wrBlocked, name, wr,
                   rx, rxAlive, sockOpen, clientClosed, sockErr, budget, bursts,
                   faults, sent, histVars, locked, todo, planVars>>

\* mutant: a fan-out that lets go of the mutex before it sends
Unlocked(c) == 0

\* self.go_state.lock().unwrap() in the head of the for loop: the guard lives
\* until the loop is over, so the task holds the mutex while it sends
LockedBy(c) == c

\* for (addr, tx) in &self.go_state.lock().unwrap().peers: the task takes the
\* mutex of the other map, waiting until it is free, and starts to iterate
\* over the map's entries.  Over an empty map the loop is over at once.
FanLock(c) ==
    /\ st[c] = "Active" /\ pc[c] = "lock"
    /\ locked[TargetState(kind[c])] = 0
    /\ bcast' = [bcast EXCEPT ![c] =
         Append(@, [data |-> cur[c], present |-> Registered(c),
                    own |-> DOMAIN peers[OwnState(kind[c])],
                    gone |-> {d \in Conns : removes[d] > 0},
                    ending |-> {d \in Conns : pc[d] = "drop"}])]
    /\ todo' = [todo EXCEPT ![c] = peers[TargetState(kind[c])]]
    /\ IF peers[TargetState(kind[c])] = EmptyPeers
       THEN /\ pc' = [pc EXCEPT ![c] = "read"]
            /\ cur' = [cur EXCEPT ![c] = <<>>]
            /\ UNCHANGED locked
       ELSE /\ pc' = [pc EXCEPT ![c] = "send"]
            /\ locked' = [locked EXCEPT ![TargetState(kind[c])] = LockedBy(c)]
            /\ UNCHANGED cur
    /\ UNCHANGED <<peers, kind, addr, st, notified, rxWait, rdWait, wrBlocked,
                   name, bufVars, sockVars, out, enq, removes, sendFailed,
                   lineVars, planVars>>

\* One turn of the for loop: the line is sent on the tx of the entry unless
\* the entry's key is the own address; the mutex is released after the last
\* entry, where the line goes out of scope.  unbounded_send(..).unwrap() panics on a dropped rx.
FanSend(c) ==
    /\ st[c] = "Active" /\ pc[c] = "send"
    /\ \E a \in DOMAIN todo[c] :
          LET r == todo[c][a]
              sends == a \in SendKeys(todo[c], addr[c])
              fails == sends /\ ~rxAlive[r]
              rest == [x \in DOMAIN todo[c] \ {a} |-> todo[c][x]]
              msg == [from |-> c, data |-> cur[c]]
          IN  /\ todo' = [todo EXCEPT ![c] = IF fails THEN EmptyPeers ELSE rest]
              /\ rx' = [rx EXCEPT ![r] =
                          IF sends /\ ~fails THEN Append(@, msg) ELSE @]
              /\ enq' = [enq EXCEPT ![r] =
                           IF sends /\ ~fails THEN Append(@, msg) ELSE @]
              /\ notified' = [notified EXCEPT ![r] =
                                @ \/ (sends /\ ~fails /\ rxWait[r])]
              /\ rxWait' = [rxWait EXCEPT ![r] = @ /\ ~(sends /\ ~fails)]
              /\ sendFailed' = (sendFailed \/ fails)
              /\ pc' = [pc EXCEPT ![c] =
                          IF fails THEN "drop"
                          ELSE IF rest = EmptyPeers THEN "read" ELSE "send"]
              /\ locked' = [locked EXCEPT ![TargetState(kind[c])] =
                              IF fails \/ rest = EmptyPeers THEN 0 ELSE @]
              /\ cur' = [cur EXCEPT ![c] =
                           IF fails \/ rest = EmptyPeers THEN <<>> ELSE @]
    /\ UNCHANGED <<peers, kind, addr, st, rdWait, wrBlocked, name, rd, wr,
                   rxAlive, sockVars, out, bcast, removes, lineVars, planVars>>

\* Drop for CPeer / GOPeer: the finished task's peer takes its address out
\* of its own map ...
DropPeer(c) ==
    /\ st[c] = "Active" /\ pc[c] = "drop"
    /\ locked[OwnState(kind[c])] = 0
    /\ peers' = [peers EXCEPT ![OwnState(kind[c])] = Remove(@, addr[c])]
    /\ removes' = [removes EXCEPT ![c] = @ + 1]
    /\ st' = [st EXCEPT ![c] = "Terminated"]
    /\ pc' = [pc EXCEPT ![c] = "dropFields"]
    /\ UNCHANGED <<kind, addr, notified, rxWait, rdWait, wrBlocked, name,
                   bufVars, sockVars, out, bcast, enq, sendFailed, fanVars,
                   lineVars, planVars>>

\* ... and then its fields are dropped: the rx half with the messages still
\* queued, the buffers, and the socket, which is closed.
DropFields(c) ==
    /\ pc[c] = "dropFields"
    /\ pc' = [pc EXCEPT ![c] = "done"]
    /\ rxAlive' = [rxAlive EXCEPT ![c] = FALSE]
    /\ rx' = [rx EXCEPT ![c] = <<>>]
    /\ rd' = [rd EXCEPT ![c] = <<>>]
    /\ wr' = [wr EXCEPT ![c] = <<>>]
    /\ sockIn' = [sockIn EXCEPT ![c] = <<>>]
    /\ sockOpen' = [sockOpen EXCEPT ![c] = FALSE]
    /\ notified' = [notified EXCEPT ![c] = FALSE]
    /\ rxWait' = [rxWait EXCEPT ![c] = FALSE]
    /\ rdWait' = [rdWait EXCEPT ![c] = FALSE]
    /\ wrBlocked' = [wrBlocked EXCEPT ![c] = FALSE]
    /\ cur' = [cur EXCEPT ![c] = <<>>]
    /\ UNCHANGED <<peers, kind, addr, st, name, clientClosed, sockErr, budget,
                   bursts, faults, sent, histVars, locked, todo, lineVars,
                   planVars>>

(* --------------------------- specification ----------------------------- *)
Next ==
    \E c \in Conns :
        \/ Accept(c)
        \/ \E chunk \in Chunks(c, Len(sent[c]), bursts) : ClientSend(c, chunk)
        \/ ClientClose(c)
        \/ SockError(c)
        \/ SockWritable(c)
        \/ PollName(c)
        \/ DrainFlush(c)
        \/ ReadLine(c)
        \/ FanLock(c)
        \/ FanSend(c)
        \/ DropPeer(c)
        \/ DropFields(c)

Spec == Init /\ [][Next]_vars

\* The executor polls a notified task and a running task goes on running; a
\* socket that stays connected becomes writable again.  What the clients do
\* is left to them.  The tasks are those of the connections that a run with
\* clients at shared addresses accepts.
TaskFairness ==
    \A c \in Accepted :
        /\ WF_vars(PollName(c))
        /\ WF_vars(DrainFlush(c))
        /\ WF_vars(ReadLine(c))
        /\ WF_vars(FanLock(c))
        /\ WF_vars(FanSend(c))
        /\ WF_vars(DropPeer(c))
        /\ WF_vars(DropFields(c))
        /\ WF_vars(SockWritable(c))

SpecTick == InitTick /\ [][Next]_vars /\ TaskFairness

SpecBurst == InitBurst /\ [][Next]_vars

SpecReuse == InitReuse /\ [][Next]_vars

SpecPoll == InitPoll /\ [][Next]_vars

SpecApart == InitApart /\ [][Next]_vars

SpecFan == InitFan /\ [][Next]_vars

\* InitTick is a state of SpecBurst: this invariant of SpecBurst is violated
TickStartNotReached ==
    ~ /\ budget = TickEvents /\ bursts = 0 /\ faults = MaxFaults
      /\ st = [c \in Conns |-> IF c <= 2 THEN "Active" ELSE "Free"]
      /\ pc = [c \in Conns |-> "idle"]
      /\ notified = [c \in Conns |-> c = 2]
      /\ rxWait = [c \in Conns |-> c = 1]
      /\ rdWait = [c \in Conns |-> c <= 2]
      /\ wrBlocked = [c \in Conns |-> FALSE]
      /\ rx[2] = [k \in 1..(LINES_PER_TICK + 1) |-> BurstMsg(k)]
      /\ enq[2] = rx[2] /\ enq[1] = <<>>
      /\ Len(bcast[1]) = LINES_PER_TICK + 1
      /\ \A k \in 1..Len(bcast[1]) :
            bcast[1][k] = [data |-> BurstMsg(k).data, present |-> {2},
                           own |-> {PeerAddr(1)}, gone |-> {},
                           ending |-> {}]
      /\ sent[1] = <<Letter(1), CR, LF>> \o ChatBytes(LINES_PER_TICK + 1)
      /\ sent[2] = <<Letter(2), CR, LF>>
      /\ \A c \in Conns :
            rd[c] = <<>> /\ wr[c] = <<>> /\ out[c] = <<>> /\ sockIn[c] = <<>>
      /\ peers = [s \in States |->
                    IF s = "c_state" THEN Insert(EmptyPeers, PeerAddr(1), 1)
                    ELSE Insert(EmptyPeers, PeerAddr(2), 2)]

\* InitPoll is a state of SpecBurst: TLC finds this invariant violated there
PollStartNotReached ==
    ~ /\ budget >= PollEvents /\ bursts = 0 /\ faults = MaxFaults
      /\ st = [c \in Conns |-> IF c <= 2 THEN "Active" ELSE "Free"]
      /\ pc = [c \in Conns |-> "idle"]
      /\ notified = [c \in Conns |-> c = 1]
      /\ rxWait = [c \in Conns |-> c <= 2]
      /\ rdWait = [c \in Conns |-> c = 2]
      /\ wrBlocked = [c \in Conns |-> FALSE]
      /\ nread = [c \in Conns |-> 0]
      /\ emitted = [c \in Conns |->
                      IF c <= 2 THEN <<(<<Letter(c)>>)>> ELSE <<>>]
      /\ sockIn = [c \in Conns |->
                     IF c = 1 THEN ChatBytes(LINES_PER_TICK + 1) ELSE <<>>]
      /\ sent[1] = <<Letter(1), CR, LF>> \o ChatBytes(LINES_PER_TICK + 1)
      /\ sent[2] = <<Letter(2), CR, LF>>
      /\ \A c \in Conns :
            /\ rd[c] = <<>> /\ wr[c] = <<>> /\ out[c] = <<>> /\ rx[c] = <<>>
            /\ bcast[c] = <<>> /\ enq[c] = <<>>
      /\ peers = [s \in States |->
                    IF s = "c_state" THEN Insert(EmptyPeers, PeerAddr(1), 1)
                    ELSE Insert(EmptyPeers, PeerAddr(2), 2)]

\* InitFan is a state of SpecApart: this invariant of SpecApart is violated
FanStartNotReached == ~InitFan

(* ------------------------- notions of the claims ----------------------- *)
IsPrefix(s, t) == Len(s) <= Len(t) /\ s = SubSeq(t, 1, Len(s))

\* c has completed the name handshake at some time
Joined(c) == name[c] # NoName

\* the tx of c is in the map s
InMap(s, c) == \E a \in DOMAIN peers[s] : peers[s][a] = c

\* the data of the messages that r was sent by p, in the order of arrival
RECURSIVE DataFrom(_, _)
DataFrom(q, p) ==
    IF q = <<>> THEN <<>>
    ELSE IF Head(q).from = p THEN <<Head(q).data>> \o DataFrom(Tail(q), p)
    ELSE DataFrom(Tail(q), p)

\* the data of the messages p has broadcast, in order
BcastData(p) == [i \in 1..Len(bcast[p]) |-> bcast[p][i].data]

\* r was in the map p broadcasts through at every broadcast of p so far
PresentThroughout(r, p) ==
    \A i \in 1..Len(bcast[p]) : r \in bcast[p][i].present

(* -------------------------------- C1 ----------------------------------- *)
\* C1: every line a joined peer P has broadcast has reached, in P's order and
\* with P's name in front, every peer that was registered in the other
\* pool's map at each of those broadcasts (once P is through with sending
\* the last of them); and what a peer's socket was given is a prefix of what
\* its channel was given.
C1_AllOppositePeersReceive ==
    \A p \in Conns, r \in Conns :
        /\ Joined(p) /\ PresentThroughout(r, p) /\ pc[p] # "send" =>
              /\ DataFrom(enq[r], p) = BcastData(p)
              /\ \A i \in 1..Len(bcast[p]) :
                    IsPrefix(name[p] \o <<58, 32>>, bcast[p][i].data)
        /\ IsPrefix(out[r], Flatten(enq[r]))

\* The same for the receivers whose address is not the sender's: the only
\* peers of the other pool a broadcast leaves out are those at the sender's
\* own address.
C1_ExceptSameAddress ==
    \A p \in Conns, r \in Conns :
        /\ Joined(p) /\ PresentThroughout(r, p) /\ addr[r] # addr[p]
        /\ pc[p] # "send"
        => DataFrom(enq[r], p) = BcastData(p)

(* -------------------------------- C2 ----------------------------------- *)
\* C2: no message is ever put on the channel of the connection that sent
\* it, nor on any channel whose address is the sender's address; and the
\* bytes written to a socket are bytes taken from its channel.
C2_NoSelfDelivery ==
    \A r \in Conns :
        /\ \A i \in 1..Len(enq[r]) :
              /\ enq[r][i].from # r
              /\ addr[enq[r][i].from] # addr[r]
        /\ IsPrefix(out[r], Flatten(enq[r]))
        /\ \A i \in 1..Len(rx[r]) : rx[r][i].from # r

\* a broadcast has reached a peer while the sender was registered itself
C2_Witness ==
    \E r \in Conns :
        /\ enq[r] # <<>>
        /\ out[r] # <<>>
        /\ st[enq[r][1].from] = "Active"
        /\ InMap(OwnState(kind[enq[r][1].from]), enq[r][1].from)

(* -------------------------------- C3 ----------------------------------- *)
\* C3: the Drop of a peer takes its address out of its own map once: a
\* peer that has terminated after joining has been removed exactly once and
\* no map holds its tx, a peer that has not terminated has not been removed;
\* no send has failed; and no step puts a message on the channel of a peer
\* that has terminated.
C3_State ==
    /\ ~sendFailed
    /\ \A c \in Conns :
          /\ removes[c] = (IF Joined(c) /\ st[c] = "Terminated" THEN 1 ELSE 0)
          /\ st[c] = "Terminated" => \A s \in States : ~InMap(s, c)

C3_RemovedOnceThenSkipped ==
    /\ []C3_State
    /\ [][\A c \in Conns : st[c] = "Terminated" => enq'[c] = enq[c]]_vars

\* a peer of the other pool has broadcast after a registered peer had
\* disconnected and been removed, and the broadcast left that peer out
C3_Witness ==
    \E c \in Conns, p \in Conns :
        /\ kind[c] # kind[p]
        /\ Joined(c) /\ removes[c] = 1
        /\ bcast[p] # <<>>
        /\ c \in bcast[p][Len(bcast[p])].gone
        /\ c \notin bcast[p][Len(bcast[p])].present
        /\ enq[c] = <<>> /\ ~sendFailed

(* -------------------------------- C4 ----------------------------------- *)
\* C4: a connection whose stream ends or fails while it awaits its name,
\* no complete line having arrived, terminates in that poll without touching
\* a map or a channel; and a connection that never got a name is in no map,
\* has no channel, has broadcast nothing and was sent nothing.
C4_State ==
    \A c \in Conns :
        ~Joined(c) =>
            /\ st[c] \in {"Free", "AwaitingName", "Terminated"}
            /\ \A s \in States : ~InMap(s, c)
            /\ ~rxAlive[c] /\ rx[c] = <<>>
            /\ enq[c] = <<>> /\ bcast[c] = <<>> /\ removes[c] = 0

C4_Step ==
    \A c \in Conns :
        /\ st[c] = "AwaitingName" /\ notified[c] /\ ~notified'[c]
        /\ FindCRLF(rd[c] \o sockIn[c]) < 0
        /\ clientClosed[c] \/ sockErr[c]
        => /\ st'[c] = "Terminated"
           /\ ~sockOpen'[c]
           /\ peers' = peers /\ rx' = rx /\ rxAlive' = rxAlive
           /\ enq' = enq /\ bcast' = bcast

C4_NoJoinNoEffect == []C4_State /\ [][C4_Step]_vars

\* a connection has ended without a name, at end of input with half a line
\* received, while a peer was registered
C4_Witness ==
    \E c \in Conns, d \in Conns :
        /\ st[c] = "Terminated" /\ ~Joined(c)
        /\ clientClosed[c] /\ sent[c] # <<>>
        /\ st[d] = "Active" /\ InMap(OwnState(kind[d]), d)

(* -------------------------------- C5 ----------------------------------- *)
\* C5: a message of a peer accepted by one listener is only ever put on
\* channels of peers accepted by the other listener, and every tx sits in
\* the map of its own listener only, under its own address.
C5_CrossPoolOnly ==
    /\ \A r \in Conns : \A i \in 1..Len(enq[r]) :
          kind[enq[r][i].from] # kind[r]
    /\ \A s \in States : \A a \in DOMAIN peers[s] :
          /\ s = (IF kind[peers[s][a]] = "C" THEN "c_state" ELSE "go_state")
          /\ addr[peers[s][a]] = a

\* a peer has broadcast while another address was registered in its own
\* map, and the peer at that address has been sent nothing
C5_Witness ==
    \E p \in Conns, q \in Conns :
        /\ p # q /\ kind[p] = kind[q]
        /\ bcast[p] # <<>> /\ addr[q] \in bcast[p][1].own
        /\ InMap(OwnState(kind[q]), q)
        /\ enq[q] = <<>>

(* -------------------------------- C6 ----------------------------------- *)
\* the peer is registered and its socket is neither closed nor in error
Connected(r) ==
    st[r] = "Active" /\ pc[r] # "drop" /\ ~sockErr[r] /\ ~clientClosed[r]

\* every byte put on the channel of r is on its socket, in its write buffer
\* or still in the channel, in the order it was put
Conserved(r) ==
    /\ IsPrefix(out[r], Flatten(enq[r]))
    /\ rxAlive[r] => out[r] \o wr[r] \o Flatten(rx[r]) = Flatten(enq[r])

\* C6: when the tasks are scheduled fairly and sockets become writable
\* again, a peer with more than LINES_PER_TICK messages in its channel gets
\* to a state where all that was put on its channel is written to its
\* socket, in order, unless it disconnects; no byte is lost on the way.
C6_TickBudgetLiveness ==
    /\ [](\A r \in Conns : Conserved(r))
    /\ \A r \in Accepted :
          (Len(rx[r]) > LINES_PER_TICK)
              ~> (~Connected(r) \/ (rx[r] = <<>> /\ out[r] = Flatten(enq[r])))

\* a poll has taken LINES_PER_TICK messages of eleven, written them and
\* notified its task; the eleventh is still in the channel
C6_Witness ==
    \E r \in Conns :
        /\ Len(enq[r]) = LINES_PER_TICK + 1
        /\ Len(rx[r]) = 1
        /\ out[r] = Flatten(SubSeq(enq[r], 1, LINES_PER_TICK))
        /\ notified[r] /\ ~rxWait[r] /\ Connected(r)

TaskStep(c) == pc'[c] # pc[c] \/ st'[c] # st[c]

\* the step changes nothing of connection d: not its task, its buffers, its
\* channel or its socket
Untouched(d) ==
    /\ st'[d] = st[d] /\ pc'[d] = pc[d] /\ name'[d] = name[d]
    /\ rd'[d] = rd[d] /\ wr'[d] = wr[d] /\ out'[d] = out[d]
    /\ rx'[d] = rx[d] /\ enq'[d] = enq[d] /\ rxAlive'[d] = rxAlive[d]
    /\ sockOpen'[d] = sockOpen[d] /\ sockErr'[d] = sockErr[d]
    /\ notified'[d] = notified[d]

\* the step leaves the maps alone but for the entry of c in its own map
OnlyOwnEntryGoes(c) ==
    \A s \in States : \A a \in DOMAIN peers[s] :
        s # OwnState(kind[c]) \/ a # addr[c] =>
            a \in DOMAIN peers'[s] /\ peers'[s][a] = peers[s][a]

C8_Step ==
    \A c \in Conns :
        sockErr[c] /\ TaskStep(c) /\ pc[c] \notin {"lock", "send"} =>
            /\ \A d \in Conns \ {c} : Untouched(d)
            /\ OnlyOwnEntryGoes(c)
            /\ \A s \in States : DOMAIN peers'[s] \subseteq DOMAIN peers[s]
            /\ st'[c] \in {st[c], "Terminated"}

C8_State ==
    \A c \in Conns :
        /\ removes[c] <= 1
        /\ sockErr[c] /\ st[c] = "Terminated" =>
              /\ removes[c] = (IF Joined(c) THEN 1 ELSE 0)
              /\ \A s \in States : ~InMap(s, c)

RECURSIVE SplitLines(_, _)
SplitLines(bytes, acc) ==
    IF bytes = <<>> THEN <<>>
    ELSE IF Len(bytes) >= 2 /\ bytes[1] = 13 /\ bytes[2] = 10
         THEN <<acc>> \o SplitLines(SubSeq(bytes, 3, Len(bytes)), <<>>)
         ELSE SplitLines(Tail(bytes), Append(acc, Head(bytes)))

\* C9: the name of a joined peer is the first complete line its client
\* sent; its i-th broadcast is that name, a colon, a space, the (i+1)-th
\* line of the client and CR LF; a peer without a name has broadcast
\* nothing; every message put on a channel is a broadcast of its sender, and
\* what is written to a socket is what its channel was given.
C9_MessageFormat ==
    /\ \A c \in Conns :
          LET ls == SplitLines(sent[c], <<>>)
          IN  IF Joined(c)
              THEN /\ Len(ls) >= 1 /\ name[c] = ls[1]
                   /\ Len(bcast[c]) <= Len(ls) - 1
                   /\ \A i \in 1..Len(bcast[c]) :
                         bcast[c][i].data =
                             ls[1] \o <<58, 32>> \o ls[i + 1] \o <<13, 10>>
              ELSE bcast[c] = <<>>
    /\ \A r \in Conns :
          /\ \A i \in 1..Len(enq[r]) :
                \E j \in 1..Len(bcast[enq[r][i].from]) :
                    enq[r][i].data = bcast[enq[r][i].from][j].data
          /\ IsPrefix(out[r], Flatten(enq[r]))

\* the peer named b has sent the line CR x LF and the empty line, and
\* another peer's socket has been given "b: " CR x LF CR LF "b: " CR LF
C9_Witness ==
    \E p \in Conns, r \in Conns :
        /\ name[p] = <<98>> /\ Len(bcast[p]) = 2
        /\ out[r] = <<98, 58, 32, 13, 120, 10, 13, 10, 98, 58, 32, 13, 10>>

(* -------------------------------- C10 ---------------------------------- *)
\* the step changes map s by one insert of an absent key or by one remove
\* of a present key, or not at all
OneEntryChange(s) ==
    \/ peers'[s] = peers[s]
    \/ \E a \in Addrs :
          /\ \/ a \notin DOMAIN peers[s]
                /\ DOMAIN peers'[s] = DOMAIN peers[s] \cup {a}
             \/ a \in DOMAIN peers[s]
                /\ DOMAIN peers'[s] = DOMAIN peers[s] \ {a}
          /\ \A x \in (DOMAIN peers[s] \cap DOMAIN peers'[s]) :
                peers'[s][x] = peers[s][x]

C10_State ==
    \A s \in States, a \in Addrs, c \in Conns :
        a \notin DOMAIN peers[s] =>
            /\ a \in DOMAIN Insert(peers[s], a, c)
            /\ Insert(peers[s], a, c)[a] = c
            /\ Remove(Insert(peers[s], a, c), a) = peers[s]
            /\ Remove(peers[s], a) = peers[s]

\* C10: for every map the program gets to and every address not in it,
\* inserting the address and removing it again gives the map back, and
\* removing the absent address changes nothing; and every step of the
\* program changes a map by one such insert or remove, leaving the other
\* entries alone.
C10_InsertRemoveInverse ==
    []C10_State /\ [][\A s \in States : OneEntryChange(s)]_vars

\* a peer has registered and been removed again while another peer is in
\* the same map, which is the map as it was before the peer registered
C10_Witness ==
    \E c \in Conns, d \in Conns :
        /\ c # d /\ kind[c] = kind[d]
        /\ removes[c] = 1 /\ st[d] = "Active"
        /\ c > d
        /\ peers[OwnState(kind[c])] = Insert(EmptyPeers, addr[d], d)

(* -------------------------------- C11 ---------------------------------- *)
C11_State ==
    /\ ~sendFailed
    /\ \A s \in States : \A a \in DOMAIN peers[s] : rxAlive[peers[s][a]]

\* the rx of c is dropped in this step
RxDropped(c) == rxAlive[c] /\ ~rxAlive'[c]

\* C11: no unbounded_send has failed; the rx of every tx that is in a map
\* exists; and when an rx is dropped its tx is in no map any more, Drop
\* having removed it before.
C11_SendNeverFails ==
    /\ []C11_State
    /\ [][\A c \in Conns : RxDropped(c) => \A s \in States : ~InMap(s, c)]_vars

\* a broadcast has sent to a peer whose poll was over and whose Drop had not
\* yet run when the broadcast took the mutex
C11_Witness ==
    \E p \in Conns, c \in Conns :
        /\ bcast[p] # <<>> /\ pc[p] # "send"
        /\ c \in bcast[p][Len(bcast[p])].ending
        /\ c \in bcast[p][Len(bcast[p])].present
        /\ enq[c] # <<>>
        /\ enq[c][Len(enq[c])] = [from |-> p, data |-> bcast[p][Len(bcast[p])].data]
        /\ ~sendFailed

Registers(c) == st[c] = "AwaitingName" /\ st'[c] = "Active"

C12_Step ==
    \A c \in Conns :
        /\ Registers(c) =>
              /\ peers'[OwnState(kind[c])] =
                    [x \in DOMAIN peers[OwnState(kind[c])] \cup {addr[c]} |->
                        IF x = addr[c] THEN c
                        ELSE peers[OwnState(kind[c])][x]]
              /\ peers'[TargetState(kind[c])] = peers[TargetState(kind[c])]
        /\ (st[c] = "AwaitingName" /\ st'[c] = "Terminated") =>
              sockErr[c] \/ FindCRLF(Filled(c)) < 0

C13_SendsAfterRelease ==
    [][enq' # enq => \A s \in States : locked[s] = 0]_vars

\* The entries a broadcast still has to visit are entries of the live map
LiveView(c) ==
    \A a \in DOMAIN todo[c] :
        /\ a \in DOMAIN peers[TargetState(kind[c])]
        /\ peers[TargetState(kind[c])][a] = todo[c][a]

C13_State ==
    \A c \in Conns :
        pc[c] = "send" =>
            /\ locked[TargetState(kind[c])] = c
            /\ LiveView(c)

C13_Step ==
    /\ \A s \in States : locked[s] # 0 => peers'[s] = peers[s]
    /\ \A r \in Conns :
          enq'[r] # enq[r] =>
              \E c \in Conns :
                  /\ pc[c] = "send" /\ locked[TargetState(kind[c])] = c
                  /\ OwnState(kind[r]) = TargetState(kind[c])
                  /\ enq'[r] = Append(enq[r], [from |-> c, data |-> cur[c]])

\* C13 (amended): fan-out iterates the live map under its lock. The
\* broadcasting agent takes the lock of the target map, sends to each entry
\* while holding it and releases it after the last entry, so the target map
\* cannot be changed (no register, no unregister) while the sends of one
\* broadcast are in progress.
C13_FanOutUnderLock == []C13_State /\ [][C13_Step]_vars

\* A broadcast holds the lock and has yet to send to a peer of the target
\* pool that has finished and waits for the lock to remove itself
C13_Witness ==
    \E p \in Conns, d \in Conns :
        /\ pc[p] = "send" /\ locked[TargetState(kind[p])] = p
        /\ kind[d] # kind[p] /\ st[d] = "Active" /\ pc[d] = "drop"
        /\ addr[d] \in DOMAIN todo[p] /\ todo[p][addr[d]] = d

\* ---------------------------------------------------------------------------
\* The step in which the poll of peer c drains its channel and flushes
DrainStep(c) ==
    /\ st[c] = "Active" /\ pc[c] \in {"drain", "idle"}
    /\ \/ pc'[c] # pc[c]
       \/ Len(rx'[c]) < Len(rx[c])
       \/ notified[c] /\ ~notified'[c]

\* The number of messages a step takes from the channel of c
Moved(c) == Len(rx[c]) - Len(rx'[c])

\* C14 (as stated): in an activation whose flush would block the agent
\* yields: while the write side is blocked with bytes unsent the poll is not
\* at the read loop or at a fan-out and has read no line.
C14_YieldsWhenBlocked ==
    \A c \in Conns :
        wrBlocked[c] /\ wr[c] # <<>> =>
            nread[c] = 0 /\ pc[c] \notin {"read", "lock", "send"}

C14_Step ==
    \A c \in Conns :
        DrainStep(c) =>
            IF sockErr[c] /\ wr[c] \o Flatten(Take(rx[c], Moved(c))) # <<>>
            THEN pc'[c] = "drop"
            ELSE /\ pc'[c] = "read"
                 /\ wrBlocked'[c] <=> wr'[c] # <<>>
                 /\ out'[c] \o wr'[c] =
                        out[c] \o wr[c] \o Flatten(Take(rx[c], Moved(c)))

\* C14 (amended): the result of the flush is ignored unless it is an error.
\* When the flush would block, the unsent bytes stay in the write buffer with
\* the task registered for writability, and the agent goes on in the same
\* activation to read lines from the Framer and fan them out.
C14_FlushResultIgnored ==
    /\ [](\A c \in Conns : wrBlocked[c] => wr[c] # <<>>)
    /\ [][C14_Step]_vars

\* A peer whose flush blocked has read a line in the same activation and is
\* fanning it out
C14_Witness ==
    \E c \in Conns :
        /\ wrBlocked[c] /\ wr[c] # <<>>
        /\ nread[c] > 0 /\ pc[c] \in {"lock", "send"}

\* ---------------------------------------------------------------------------
C15_Step ==
    \A c \in Conns :
        DrainStep(c) =>
            /\ Moved(c) <= LINES_PER_TICK
            /\ Moved(c) = LINES_PER_TICK \/ rx'[c] = <<>>
            /\ rx'[c] = Drop(rx[c], Moved(c))
            /\ out'[c] \o wr'[c] =
                   out[c] \o wr[c] \o Flatten(Take(rx[c], Moved(c)))
            /\ notified'[c] =
                   IF Moved(c) = LINES_PER_TICK THEN TRUE
                   ELSE pc[c] = "drain" /\ notified[c]
            /\ rxWait'[c] = (Moved(c) < LINES_PER_TICK)

\* C15: one activation of an Active agent moves at most LINES_PER_TICK
\* messages, the oldest first, from its channel to the write buffer. It
\* notifies itself exactly when it has moved LINES_PER_TICK of them; otherwise
\* it has stopped at the empty channel, where it is registered for the next
\* message.
C15_DrainBudget == [][C15_Step]_vars

\* An activation has moved exactly LINES_PER_TICK messages of a longer queue:
\* the rest is still queued and the task has notified itself
C15_Witness ==
    \E c \in Conns :
        /\ pc[c] = "read" /\ notified[c] /\ ~rxWait[c]
        /\ Len(enq[c]) > LINES_PER_TICK
        /\ rx[c] = Drop(enq[c], LINES_PER_TICK)
        /\ out[c] \o wr[c] = Flatten(Take(enq[c], LINES_PER_TICK))

\* ---------------------------------------------------------------------------
\* C16: in one poll a peer reads and broadcasts at most LINES_PER_TICK lines
\* of its client.
C16_ReadBudget ==
    \A c \in Conns : nread[c] <= LINES_PER_TICK

\* ---------------------------------------------------------------------------
\* An Active peer whose poll has returned NotReady and that nothing has
\* notified since
Asleep(c) == st[c] = "Active" /\ pc[c] = "idle" /\ ~notified[c]

C17_State ==
    \A c \in Conns :
        Asleep(c) =>
            /\ rdWait[c] /\ sockIn[c] = <<>> /\ ~clientClosed[c] /\ ~sockErr[c]
            /\ rxWait[c] /\ rx[c] = <<>>
            /\ wr[c] # <<>> => wrBlocked[c]

C17_Step ==
    \A c \in Conns :
        (st[c] = "Active" /\ pc[c] = "read" /\ pc'[c] = "idle") =>
            /\ rdWait'[c]
            /\ rxWait'[c] \/ notified'[c]
            /\ wr'[c] # <<>> => wrBlocked'[c] \/ notified'[c]

\* C17: no wake-up is lost. When the poll of an Active peer returns NotReady
\* the task is registered for reading its socket, it is registered with its
\* channel or has been notified, and if bytes are left in the write buffer it
\* is registered for writing or has been notified. A peer that sleeps has
\* nothing to do: no message in its channel, no byte to read, no end of input
\* and no error pending. So with fair scheduling every message put on the
\* channel of an Active peer is taken off it and every byte that arrives on
\* its socket is read.
C17_NoLostWakeup ==
    /\ []C17_State
    /\ [][C17_Step]_vars
    /\ \A c \in Accepted :
          (st[c] = "Active" /\ rx[c] # <<>>) ~> (rx[c] = <<>>)
    /\ \A c \in Accepted :
          (st[c] = "Active" /\ sockIn[c] # <<>>) ~> (sockIn[c] = <<>>)

\* A peer sleeps with all three wake-ups armed: it has written part of what
\* its channel gave it and the socket takes no more
C17_Witness ==
    \E c \in Conns :
        /\ Asleep(c)
        /\ rdWait[c] /\ rxWait[c] /\ wrBlocked[c]
        /\ wr[c] # <<>> /\ out[c] # <<>>

\* ---------------------------------------------------------------------------
\* the bytes of a sequence of lines, each followed by CR LF
RECURSIVE Unsplit(_)
Unsplit(ls) ==
    IF ls = <<>> THEN <<>> ELSE Head(ls) \o <<13, 10>> \o Unsplit(Tail(ls))

\* The socket of c is one Lines still reads from
Reading(c) == sockOpen[c] /\ ~sockErr[c]

\* C18: whatever the chunks in which the bytes of a client arrive, the lines
\* Lines::poll returns are the segments of the stream before each successive
\* first CR LF, in order and without the CR LF (a lone CR or LF is a byte of
\* the line, two CR LF in a row give the empty line); the bytes after the
\* last returned line are kept, in the read buffer or still in the socket;
\* and a task at rest has no complete line left in its read buffer.
C18_LineFraming ==
    \A c \in Conns :
        /\ IsPrefix(emitted[c], SplitLines(sent[c], <<>>))
        /\ Reading(c) => Unsplit(emitted[c]) \o rd[c] \o sockIn[c] = sent[c]
        /\ pc[c] = "idle" => SplitLines(rd[c], <<>>) = <<>>

\* A client's line with a lone CR and a lone LF and its empty line have been
\* returned, and the next line waits in the read buffer with the CR of its
\* terminator, whose LF has not arrived
C18_Witness ==
    \E c \in Conns :
        /\ Len(emitted[c]) = 3
        /\ emitted[c][2] = <<13, 120, 10>>
        /\ emitted[c][3] = <<>>
        /\ rd[c] = <<121, 13>>
        /\ pc[c] = "idle"

\* ---------------------------------------------------------------------------
\* The task of c has been told the end of its stream
Ended(c) == pc[c] \in {"drop", "dropFields", "done"}

\* The step in which Lines::poll gives the task of c the end of the stream
\* or an error
EndStep(c) ==
    \/ st[c] = "Active" /\ pc[c] = "read" /\ pc'[c] = "drop"
    \/ st[c] = "AwaitingName" /\ st'[c] = "Terminated"

C19_State ==
    \A c \in Conns :
        /\ (clientClosed[c] /\ ~sockErr[c] /\ Ended(c)) =>
              emitted[c] = SplitLines(sent[c], <<>>)
        /\ pc[c] = "done" => rd[c] = <<>>

C19_Step ==
    \A c \in Conns :
        /\ Len(emitted'[c]) <= Len(emitted[c]) + 1
        /\ (EndStep(c) /\ ~sockErr[c]) =>
              /\ clientClosed[c]
              /\ SplitLines(Filled(c), <<>>) = <<>>
              /\ emitted'[c] = emitted[c]

\* C19: at the end of input every complete line still in the read buffer is
\* returned, one per call of Lines::poll, before the end is signalled: when
\* the task has been given the end of a stream that did not fail, the lines
\* returned are all the complete lines the client sent. The bytes after the
\* last CR LF are never returned and are dropped with the buffer. The end is
\* signalled only when the client has closed and the buffer holds no CR LF.
C19_EndOfInput == []C19_State /\ [][C19_Step]_vars

\* A stream has ended after two lines were returned with the end of input
\* already seen, and the client's last bytes, which no CR LF follows, were
\* not returned
C19_Witness ==
    \E c \in Conns :
        /\ clientClosed[c] /\ ~sockErr[c] /\ pc[c] = "drop"
        /\ atEof[c] >= 2
        /\ sent[c] # Unsplit(emitted[c])

\* ---------------------------------------------------------------------------
\* What a drain-and-flush step of c has in the write buffer when it flushes
Buffered(c) == wr[c] \o Flatten(Take(rx[c], Moved(c)))

C20_Step ==
    \A c \in Conns :
        /\ IsPrefix(out[c], out'[c])
        /\ out'[c] # out[c] => DrainStep(c)
        /\ (DrainStep(c) /\ ~(sockErr[c] /\ Buffered(c) # <<>>)) =>
              LET k == Len(out'[c]) - Len(out[c])
              IN  /\ k <= Len(Buffered(c))
                  /\ out'[c] = out[c] \o Take(Buffered(c), k)
                  /\ wr'[c] = Drop(Buffered(c), k)
                  /\ wr'[c] = <<>> \/ wrBlocked'[c]
                  /\ wrBlocked'[c] => wr'[c] # <<>>

\* C20: whatever the socket takes of a write, the bytes written to it are a
\* prefix, in order and without loss or repetition, of the bytes given to
\* the write buffer; a flush ends either with the buffer empty or with the
\* socket blocked and the bytes not yet written, and only those, left in the
\* buffer.
C20_FlushPartialWrites ==
    /\ [](\A c \in Conns : Conserved(c))
    /\ [][C20_Step]_vars

\* A socket took only part of a buffer, became writable again, and a later
\* flush has written the rest: all the peer was sent is on its socket
C20_Witness ==
    \E c \in Conns :
        /\ faults < MaxFaults /\ \A d \in Conns : ~sockErr[d]
        /\ \A d \in Conns \ {c} : enq[d] = <<>>
        /\ enq[c] # <<>> /\ out[c] = Flatten(enq[c])
        /\ wr[c] = <<>> /\ ~wrBlocked[c]

(* -------------------------------- C21 ---------------------------------- *)
\* the broadcasts of p, by number, that were for r: r was in the map when p
\* took the lock, at another address than p's, and if it is the broadcast p
\* is sending now then r's entry has been visited
Due(r, p) ==
    {i \in 1..Len(bcast[p]) :
        /\ r \in bcast[p][i].present
        /\ addr[r] # addr[p]
        /\ ~(/\ i = Len(bcast[p]) /\ pc[p] = "send"
             /\ addr[r] \in DOMAIN todo[p] /\ todo[p][addr[r]] = r)}

\* the positions in r's channel history of the messages sent by p
Places(r, p) == {j \in 1..Len(enq[r]) : enq[r][j].from = p}

\* the k-th smallest element of a set of numbers
Nth(S, k) == CHOOSE x \in S : Cardinality({y \in S : y <= x}) = k

\* the number of elements of S up to x
Rank(S, x) == Cardinality({y \in S : y <= x})

\* where in r's channel history the i-th broadcast of p is
PlaceOf(r, p, i) == Nth(Places(r, p), Rank(Due(r, p), i))

\* every broadcast reaches the peers that were in the map when its lock was
\* taken, and no others
WhollyOrNotAtAll(r, p) ==
    /\ Cardinality(Places(r, p)) = Cardinality(Due(r, p))
    /\ \A i \in Due(r, p) : enq[r][PlaceOf(r, p, i)].data = bcast[p][i].data

\* two receivers that both got the i-th broadcast of p and the j-th of q got
\* them in the same order
SameOrder(r1, r2, p, q) ==
    \A i \in Due(r1, p) \cap Due(r2, p), j \in Due(r1, q) \cap Due(r2, q) :
        (PlaceOf(r1, p, i) < PlaceOf(r1, q, j))
            <=> (PlaceOf(r2, p, i) < PlaceOf(r2, q, j))

\* C21: the fan-out of one line is atomic with respect to the target map,
\* whose lock the sender holds from the first entry to the last: a peer that
\* registers or unregisters meanwhile gets a broadcast if and only if it was
\* in the map when the lock was taken, and any two receivers that both got
\* two messages of different senders of one pool got them in the same order.
C21_FanOutAtomic ==
    /\ \A p \in Conns :
          pc[p] = "send" => locked[TargetState(kind[p])] = p
    /\ \A r \in Conns, p \in Conns : WhollyOrNotAtAll(r, p)
    /\ \A r1 \in Conns, r2 \in Conns, p \in Conns, q \in Conns :
          p # q /\ kind[p] = kind[q] => SameOrder(r1, r2, p, q)

\* Two peers of one pool have broadcast; a peer of the other pool got a
\* broadcast of each, and so did a second one, which joined too late for a
\* broadcast that the first one got.
C21_Witness ==
    \E r1 \in Conns, r2 \in Conns, p \in Conns, q \in Conns :
        /\ r1 # r2 /\ p # q /\ kind[p] = kind[q]
        /\ Due(r1, p) \cap Due(r2, p) # {}
        /\ Due(r1, q) \cap Due(r2, q) # {}
        /\ st[r2] = "Active"
        /\ Due(r1, p) \ Due(r2, p) # {}

(* -------------------------------- C22 ---------------------------------- *)
\* the locks c holds
Held(c) == {s \in States : locked[s] = c}

\* the pool whose map s is
PoolOf(s) == IF s = "c_state" THEN "C" ELSE "GO"

\* c waits for a mutex that another task holds
Waits(c) ==
    \/ st[c] = "Active" /\ pc[c] = "lock" /\ locked[TargetState(kind[c])] # 0
    \/ st[c] = "Active" /\ pc[c] = "drop" /\ locked[OwnState(kind[c])] # 0
    \/ /\ st[c] = "AwaitingName" /\ pc[c] = "idle" /\ notified[c]
       /\ ~ENABLED PollName(c)

C22_State ==
    \A c \in Conns :
        /\ Cardinality(Held(c)) <= 1
        /\ \A s \in Held(c) :
              /\ st[c] = "Active" /\ pc[c] = "send"
              /\ kind[c] # PoolOf(s)
              /\ ~Waits(c)
              /\ ENABLED FanSend(c)

C22_Step ==
    /\ \A s \in States :
          \* the map changes in a register or a cleanup of a peer of its own
          \* pool, which holds no lock before or after
          /\ peers'[s] # peers[s] =>
                /\ locked[s] = 0 /\ locked'[s] = 0
                /\ \E c \in Conns :
                      /\ kind[c] = PoolOf(s) /\ st'[c] # st[c]
                      /\ Held(c) = {}
                      /\ \A t \in States : locked'[t] # c
          \* a lock is taken when it is free, by a task that holds none
          /\ locked'[s] \notin {0, locked[s]} =>
                locked[s] = 0 /\ Held(locked'[s]) = {}
    /\ \A c \in Conns :
          \* the socket of a task is not read or written while it has a lock
          (Held(c) # {} \/ \E s \in States : locked'[s] = c) =>
              /\ out'[c] = out[c] /\ wr'[c] = wr[c] /\ rd'[c] = rd[c]
              /\ nread'[c] = nread[c] /\ emitted'[c] = emitted[c]
              \* what is waiting in the socket grows, or is lost with the
              \* connection
              /\ IsPrefix(sockIn[c], sockIn'[c]) \/ (sockErr'[c] /\ ~sockErr[c])

\* C22: no task ever holds the locks of both maps: a register or a cleanup
\* locks the map of the own pool for the one statement, a fan-out locks the
\* map of the other pool only, and a task that takes a lock holds none; no
\* socket is read or written by a task that holds a lock; and a task that
\* holds a lock never waits for one but can go on with its fan-out, so that
\* the tasks of the two pools cannot deadlock on the locks.
C22_NoLockNesting == []C22_State /\ [][C22_Step]_vars

\* tasks of the two pools hold the two locks at the same time, each in the
\* middle of sending to the other
C22_Witness ==
    \E c \in Conns, d \in Conns :
        /\ locked["c_state"] = c /\ locked["go_state"] = d
        /\ todo[c] # EmptyPeers /\ todo[d] # EmptyPeers
        /\ d \in Registered(c) /\ c \in Registered(d)

(* -------------------------------- C23 ---------------------------------- *)
\* p has been through the entry of r in a broadcast and r's key was p's own
\* address
SkippedBy(r, p) ==
    /\ kind[r] \in Kinds /\ kind[p] \in Kinds /\ kind[r] # kind[p]
    /\ addr[r] = addr[p]
    /\ \E i \in 1..Len(bcast[p]) :
          /\ r \in bcast[p][i].present
          /\ i < Len(bcast[p]) \/ pc[p] # "send" \/ addr[r] \notin DOMAIN todo[p]

C23_State ==
    /\ \A p \in Conns : ~InMap(TargetState(kind[p]), p)
    /\ \A r \in Conns, p \in Conns :
          /\ WhollyOrNotAtAll(r, p)
          /\ SkippedBy(r, p) => Places(r, p) = {}

\* a turn of the loop takes one entry; the line is put on its channel if its
\* key is not the sender's address, and on no channel otherwise
C23_Step ==
    \A c \in Conns :
        pc[c] = "send" /\ todo'[c] # todo[c] =>
            \E a \in DOMAIN todo[c] :
                /\ DOMAIN todo'[c] = DOMAIN todo[c] \ {a}
                /\ \A r \in Conns :
                      enq'[r] =
                          IF r = todo[c][a] /\ a # addr[c]
                          THEN Append(enq[r], [from |-> c, data |-> cur[c]])
                          ELSE enq[r]

====
